---- MODULE Spec2Model ----
(***************************************************************************)
(* Bellman-Ford visualizer (src/app/page.tsx): the relaxation engine       *)
(* runBellmanFord with its multi-predecessor bookkeeping, the cycle        *)
(* detection pass and the backward enumeration findAllShortestPaths, the    *)
(* replay of the recorded steps and the handlers of the graph editor.      *)
(* The handler is synchronous; pc records its position so that every edge  *)
(* relaxation and every recursive call of dfs is a step of the model.      *)
(***************************************************************************)
EXTENDS Integers, Sequences, FiniteSets, TLC

\* ---------------------------------------------------------------- bounds
NumNodes == 3      \* graphs of 1..NumNodes nodes
MaxEdges == 3      \* edge lists of 0..MaxEdges edges
MaxWeight == 1     \* edge weights in -MaxWeight..MaxWeight
StackLimit == 5    \* call-stack capacity of the engine, in dfs frames
EditorNodes == 2    \* the editor adds nodes while there are fewer than this
EditorEdges == 2    \* the editor adds edges while there are fewer than this

\* ------------------------------------------------------------ data model
NULL == "null"

\* String.fromCharCode(65 + nodes.length): the ids the editor hands out.
Letters == <<"A", "B", "C", "D", "E", "F", "G", "H">>

NodeList(n) == [k \in 1..n |-> Letters[k]]

Range(s) == {s[k] : k \in 1..Len(s)}

\* A JavaScript number as the engine uses it: a finite integer or one of the
\* two infinities; NoDistance is the null of optimalDistance.
Fin(n) == [k |-> "fin", v |-> n]
PosInf == [k |-> "posinf", v |-> 0]
NegInf == [k |-> "neginf", v |-> 0]
NoDistance == [k |-> "null", v |-> 0]

\* What a lookup of a missing key yields, and what adding a weight to it gives.
Undefined == [k |-> "undefined", v |-> 0]
NaN == [k |-> "nan", v |-> 0]

IsFin(d) == d.k = "fin"

\* fromDistance + edge.weight: an infinity absorbs the finite weight.
Plus(d, w) ==
    IF IsFin(d) THEN Fin(d.v + w) ELSE IF d = Undefined THEN NaN ELSE d

\* a < b on numbers with infinities; false when a side is not a number.
Lt(a, b) ==
    \/ a.k = "neginf" /\ b.k # "neginf"
    \/ a.k = "fin" /\ b.k = "posinf"
    \/ a.k = "fin" /\ b.k = "fin" /\ a.v < b.v

Modes == {"min", "max"}

\* Variant: the sentinel of Minimize used under both modes.
Unreached_AlwaysPosInf(m) == PosInf

\* The initial sentinel of the mode.
Unreached(m) == IF m = "min" THEN PosInf ELSE NegInf

\* Variant: under Maximize an equal distance also counts as an improvement.
ShouldUpdate_MaxNonStrict(m, fromDistance, toDistance, w) ==
    IF m = "min"
    THEN fromDistance # PosInf /\ Lt(Plus(fromDistance, w), toDistance)
    ELSE /\ fromDistance # NegInf
         /\ \/ Lt(toDistance, Plus(fromDistance, w))
            \/ Plus(fromDistance, w) = toDistance

\* shouldUpdate of runBellmanFord.
ShouldUpdate(m, fromDistance, toDistance, w) ==
    IF m = "min"
    THEN fromDistance # PosInf /\ Lt(Plus(fromDistance, w), toDistance)
    ELSE fromDistance # NegInf /\ Lt(toDistance, Plus(fromDistance, w))

\* Variant: ties are recognised under Minimize only.
IsEqual_MinOnly(m, fromDistance, toDistance, w) ==
    m = "min" /\ fromDistance # PosInf /\ Plus(fromDistance, w) = toDistance

\* isEqual of runBellmanFord.
IsEqual(m, fromDistance, toDistance, w) ==
    IF m = "min"
    THEN fromDistance # PosInf /\ Plus(fromDistance, w) = toDistance
    ELSE fromDistance # NegInf /\ Plus(fromDistance, w) = toDistance

\* Variant: the detection pass has no branch for Minimize.
StillImproves_MaxOnly(m, fromDistance, toDistance, w) ==
    m = "max" /\ fromDistance # NegInf /\ Lt(toDistance, Plus(fromDistance, w))

\* Variant: the detection pass also fires on an edge that merely ties.
StillImproves_NonStrict(m, fromDistance, toDistance, w) ==
    IF m = "min"
    THEN fromDistance # PosInf /\ ~Lt(toDistance, Plus(fromDistance, w))
    ELSE fromDistance # NegInf /\ ~Lt(Plus(fromDistance, w), toDistance)

\* Variant: the detection pass has no branch for Maximize.
StillImproves_MinOnly(m, fromDistance, toDistance, w) ==
    m = "min" /\ fromDistance # PosInf /\ Lt(Plus(fromDistance, w), toDistance)

\* The test of the cycle detection pass, written out once per mode.
StillImproves(m, fromDistance, toDistance, w) ==
    IF m = "min"
    THEN fromDistance # PosInf /\ Lt(Plus(fromDistance, w), toDistance)
    ELSE fromDistance # NegInf /\ Lt(toDistance, Plus(fromDistance, w))

\* Variant: an improvement keeps the predecessors of the worse distance.
ReplacePredecessors_Keep(ps, u) == Append(ps, u)

\* nodePredecessors[edge.to] = [edge.from]
ReplacePredecessors(ps, u) == <<u>>

\* Variant: a tie is logged but its predecessor is not kept.
AddPredecessor_Dropped(ps, u) == ps

\* nodePredecessors[edge.to].push(edge.from)
AddPredecessor(ps, u) == Append(ps, u)

\* Variant: only the sentinel of Minimize counts as unreached.
IsValidDistance_MinOnly(m, d) == d # PosInf

\* isValidDistance of runBellmanFord.
IsValidDistance(m, d) == IF m = "min" THEN d # PosInf ELSE d # NegInf

Reverse(s) == [k \in 1..Len(s) |-> s[Len(s) + 1 - k]]

\* ------------------------------------------------------- graph snapshots
EdgeRecs(n) ==
    {[from |-> Letters[a], to |-> Letters[b], weight |-> w] :
        a \in 1..n, b \in 1..n, w \in (0 - MaxWeight)..MaxWeight}

\* What the editor can build: no self-loop, one edge per ordered pair.
WellFormed(es) ==
    /\ \A k \in 1..Len(es) : es[k].from # es[k].to
    /\ \A j, k \in 1..Len(es) :
          (es[j].from = es[k].from /\ es[j].to = es[k].to) => j = k

EdgeLists(n) ==
    {es \in UNION {[1..k -> EdgeRecs(n)] : k \in 0..MaxEdges} : WellFormed(es)}

\* --------------------------------------------------------------- state
VARIABLES
    nodes,             \* ids of the nodes, in creation order
    edges,             \* the edge list, in creation order
    startNode,
    endNode,
    optimizationMode,
    pc,                \* position inside runBellmanFord
    i,                 \* round counter of the relaxation loop
    e,                 \* index of the next edge of the running forEach
    updated,
    nodeDistances,
    nodePredecessors,
    steps,
    hasCycle,
    callStack,         \* frames of dfs: [node, next]
    currentPath,
    allPaths,
    hasNegativeCycle,
    algorithmSteps,
    currentStep,
    optimalPath,
    allOptimalPaths,
    optimalDistance,
    algorithmCompleted,
    isRunning,
    nodeData,          \* per node of the list: distance, previous, predecessors
    edgeActive,        \* per edge of the list: isActive
    mode,              \* the editor tool in use
    selectedNode,
    connectingFrom,
    edgeWeight,        \* text of the weight input of the connect tool
    editingEdge,       \* id of the edge of the weight dialog, <<>> when closed
    newWeight          \* text of the weight input of the dialog

graphVars == <<nodes, edges, startNode, endNode, optimizationMode>>
loopVars == <<i, e, updated>>
tableVars == <<nodeDistances, nodePredecessors, steps, hasCycle>>
dfsVars == <<callStack, currentPath, allPaths>>
resultVars == <<hasNegativeCycle, algorithmSteps, currentStep, optimalPath,
                allOptimalPaths, optimalDistance, algorithmCompleted>>
editorVars == <<mode, selectedNode, connectingFrom, edgeWeight, editingEdge,
                newWeight>>
displayVars == <<nodeData, edgeActive>>
vars == <<graphVars, pc, loopVars, tableVars, dfsVars, resultVars, isRunning,
          displayVars, editorVars>>

\* The fields of a node the editor has just created.
NewNodeData == [distance |-> PosInf, previous |-> NULL, predecessors |-> <<>>]

\* The fields after setAsStart has designated the source s.
DesignatedData(ns, s) ==
    [k \in 1..Len(ns) |->
        [distance |-> IF ns[k] = s THEN Fin(0) ELSE PosInf,
         previous |-> NULL,
         predecessors |-> <<>>]]

\* canRunAlgorithm: what enables the run button.
CanRunAlgorithm(s, t, ns) == s # NULL /\ t # NULL /\ Len(ns) > 0

\* The tools and inputs of the editor as the component mounts.
EditorAtRest ==
    /\ mode = "add"
    /\ selectedNode = NULL
    /\ connectingFrom = NULL
    /\ edgeWeight = "1"
    /\ editingEdge = <<>>
    /\ newWeight = ""

\* No run has been made yet.
NothingRun ==
    /\ pc = "idle"
    /\ i = 0
    /\ e = 1
    /\ updated = FALSE
    /\ nodeDistances = [v \in Range(nodes) |-> PosInf]
    /\ nodePredecessors = [v \in Range(nodes) |-> <<>>]
    /\ steps = <<>>
    /\ hasCycle = FALSE
    /\ callStack = <<>>
    /\ currentPath = <<>>
    /\ allPaths = <<>>
    /\ hasNegativeCycle = FALSE
    /\ algorithmSteps = <<>>
    /\ currentStep = 0
    /\ optimalPath = <<>>
    /\ allOptimalPaths = <<>>
    /\ optimalDistance = NoDistance
    /\ algorithmCompleted = FALSE
    /\ isRunning = FALSE

\* A graph the editor has built, with or without designated endpoints.
Init ==
    /\ \E n \in 1..NumNodes :
          /\ nodes = NodeList(n)
          /\ edges \in EdgeLists(n)
    /\ startNode \in Range(nodes) \cup {NULL}
    /\ endNode \in Range(nodes) \cup {NULL}
    /\ optimizationMode \in Modes
    /\ nodeData = DesignatedData(nodes, startNode)
    /\ edgeActive = [k \in 1..Len(edges) |-> FALSE]
    /\ EditorAtRest
    /\ NothingRun

\* -------------------------------------------------------- runBellmanFord
Top == callStack[Len(callStack)]

\* nodeDistances[id] and nodePredecessors[id] || []
DistanceOf(v) ==
    IF v \in DOMAIN nodeDistances THEN nodeDistances[v] ELSE Undefined

PredecessorsOf(v) ==
    IF v \in DOMAIN nodePredecessors THEN nodePredecessors[v] ELSE <<>>

\* The run button while no replay is running: it is enabled by
\* canRunAlgorithm, and runBellmanFord itself returns at once without both
\* endpoints.
RunRequested ==
    /\ pc \in {"idle", "done", "crashed"}
    /\ ~isRunning

\* A request without designated endpoints: nothing happens.
RunRefused ==
    /\ RunRequested
    /\ ~CanRunAlgorithm(startNode, endNode, nodes)
    /\ UNCHANGED vars

Front(s) == SubSeq(s, 1, Len(s) - 1)

\* Variant: the table of distances starts from the distance fields the
\* nodes carry.
RunEntry_FromNodeFields ==
    /\ algorithmCompleted' = FALSE
    /\ optimalPath' = <<>>
    /\ allOptimalPaths' = <<>>
    /\ optimalDistance' = NoDistance
    /\ hasNegativeCycle' = FALSE
    /\ steps' = <<>>
    /\ nodeDistances' =
          [v \in Range(nodes) |->
              IF v = startNode THEN Fin(0)
              ELSE nodeData[CHOOSE k \in 1..Len(nodes) : nodes[k] = v].distance]
    /\ nodePredecessors' = [v \in Range(nodes) |-> <<>>]
    /\ hasCycle' = FALSE
    /\ i' = 0
    /\ e' = 1
    /\ updated' = FALSE
    /\ pc' = IF 0 < Len(nodes) - 1 THEN "relax" ELSE "detect"
    /\ callStack' = <<>>
    /\ currentPath' = <<>>
    /\ allPaths' = <<>>
    /\ UNCHANGED <<graphVars, algorithmSteps, currentStep, isRunning,
                   displayVars, editorVars>>

\* The resets of runBellmanFord and the initialisation of its two tables.
RunEntry ==
    /\ algorithmCompleted' = FALSE
    /\ optimalPath' = <<>>
    /\ allOptimalPaths' = <<>>
    /\ optimalDistance' = NoDistance
    /\ hasNegativeCycle' = FALSE
    /\ steps' = <<>>
    /\ nodeDistances' =
          [v \in Range(nodes) |->
              IF v = startNode THEN Fin(0) ELSE Unreached(optimizationMode)]
    /\ nodePredecessors' = [v \in Range(nodes) |-> <<>>]
    /\ hasCycle' = FALSE
    /\ i' = 0
    /\ e' = 1
    /\ updated' = FALSE
    /\ pc' = IF 0 < Len(nodes) - 1 THEN "relax" ELSE "detect"
    /\ callStack' = <<>>
    /\ currentPath' = <<>>
    /\ allPaths' = <<>>
    /\ UNCHANGED <<graphVars, algorithmSteps, currentStep, isRunning,
                   displayVars, editorVars>>

\* Variant: the run starts whether or not the endpoints are designated.
RunStart_Unguarded == RunRequested /\ RunEntry

\* The run button starts runBellmanFord: enabled by canRunAlgorithm, and the
\* function's own guard on the two endpoints.
RunStart ==
    /\ RunRequested
    /\ CanRunAlgorithm(startNode, endNode, nodes)
    /\ startNode # NULL /\ endNode # NULL
    /\ RunEntry

\* One call of the callback of edges.forEach inside the relaxation loop.
RelaxEdge ==
    /\ pc = "relax"
    /\ e <= Len(edges)
    /\ LET edge == edges[e]
           fromDistance == DistanceOf(edge.from)
           toDistance == DistanceOf(edge.to)
           newDistance == Plus(fromDistance, edge.weight)
       IN  IF ShouldUpdate(optimizationMode, fromDistance, toDistance, edge.weight)
           THEN /\ nodeDistances' = [nodeDistances EXCEPT ![edge.to] = newDistance]
                /\ nodePredecessors' =
                       [nodePredecessors EXCEPT
                           ![edge.to] = ReplacePredecessors(@, edge.from)]
                /\ updated' = TRUE
                /\ steps' = Append(steps,
                       [iteration |-> i + 1,
                        updatedNode |-> edge.to,
                        distance |-> newDistance,
                        previous |-> edge.from,
                        description |->
                            IF optimizationMode = "min"
                            THEN "Relaxation" ELSE "Amelioration"])
           ELSE IF /\ IsEqual(optimizationMode, fromDistance, toDistance, edge.weight)
                   /\ edge.from \notin Range(nodePredecessors[edge.to])
           THEN /\ nodePredecessors' =
                       [nodePredecessors EXCEPT
                           ![edge.to] = AddPredecessor(@, edge.from)]
                /\ steps' = Append(steps,
                       [iteration |-> i + 1,
                        updatedNode |-> edge.to,
                        distance |-> newDistance,
                        previous |-> edge.from,
                        description |-> "Chemin alternatif"])
                /\ UNCHANGED <<nodeDistances, updated>>
           ELSE UNCHANGED <<nodeDistances, nodePredecessors, updated, steps>>
    /\ e' = e + 1
    /\ UNCHANGED <<graphVars, pc, i, hasCycle, dfsVars, resultVars, isRunning,
                   displayVars, editorVars>>

\* Variant: the loop test lets one round too many through.
EndRound_OneMore ==
    /\ pc = "relax"
    /\ e > Len(edges)
    /\ IF ~updated
       THEN /\ pc' = "detect"
            /\ UNCHANGED <<i, updated>>
       ELSE /\ i' = i + 1
            /\ updated' = FALSE
            /\ pc' = IF i + 1 <= Len(nodes) - 1 THEN "relax" ELSE "detect"
    /\ e' = 1
    /\ UNCHANGED <<graphVars, tableVars, dfsVars, resultVars, isRunning,
                   displayVars, editorVars>>

\* Variant: the loop is left after its first round, improved or not.
EndRound_StopAfterFirst ==
    /\ pc = "relax"
    /\ e > Len(edges)
    /\ pc' = "detect"
    /\ e' = 1
    /\ UNCHANGED <<i, updated>>
    /\ UNCHANGED <<graphVars, tableVars, dfsVars, resultVars, isRunning,
                   displayVars, editorVars>>

\* End of one round: "if (!updated) break", then i++ and the loop test.
EndRound ==
    /\ pc = "relax"
    /\ e > Len(edges)
    /\ IF ~updated
       THEN /\ pc' = "detect"
            /\ UNCHANGED <<i, updated>>
       ELSE /\ i' = i + 1
            /\ updated' = FALSE
            /\ pc' = IF i + 1 < Len(nodes) - 1 THEN "relax" ELSE "detect"
    /\ e' = 1
    /\ UNCHANGED <<graphVars, tableVars, dfsVars, resultVars, isRunning,
                   displayVars, editorVars>>

\* One call of the callback of edges.forEach inside the cycle detection.
DetectEdge ==
    /\ pc = "detect"
    /\ e <= Len(edges)
    /\ LET edge == edges[e]
           fromDistance == DistanceOf(edge.from)
           toDistance == DistanceOf(edge.to)
       IN  IF StillImproves(optimizationMode, fromDistance, toDistance, edge.weight)
           THEN /\ hasCycle' = TRUE
                /\ steps' = Append(steps,
                       [iteration |-> Len(nodes),
                        updatedNode |-> edge.to,
                        distance |->
                            IF optimizationMode = "min" THEN NegInf ELSE PosInf,
                        previous |-> NULL,
                        description |->
                            IF optimizationMode = "min"
                            THEN "Cycle negatif detecte!"
                            ELSE "Cycle positif detecte!"])
           ELSE UNCHANGED <<hasCycle, steps>>
    /\ e' = e + 1
    /\ UNCHANGED <<graphVars, pc, i, updated, nodeDistances, nodePredecessors,
                   dfsVars, resultVars, isRunning, displayVars, editorVars>>

\* Variant: the enumeration is started whatever the detection pass found.
EnumeratePaths_IgnoreCycle(m, cycle, d) == IsValidDistance(m, d)

\* The guard in front of findAllShortestPaths.
EnumeratePaths(m, cycle, d) == ~cycle /\ IsValidDistance(m, d)

\* After the detection pass: publish flag and trace, then either start the
\* enumeration at the target or publish the empty result.
EndDetect ==
    /\ pc = "detect"
    /\ e > Len(edges)
    /\ hasNegativeCycle' = hasCycle
    /\ algorithmSteps' = steps
    /\ currentStep' = 0
    /\ IF EnumeratePaths(optimizationMode, hasCycle, DistanceOf(endNode))
       THEN /\ pc' = "dfs"
            /\ callStack' = <<[node |-> endNode, next |-> 1]>>
            /\ currentPath' = <<endNode>>
            /\ allPaths' = <<>>
            /\ UNCHANGED <<optimalPath, allOptimalPaths, optimalDistance,
                           isRunning>>
       ELSE /\ pc' = "done"
            /\ optimalPath' = <<>>
            /\ allOptimalPaths' = <<>>
            /\ optimalDistance' = NoDistance
            /\ isRunning' = TRUE
            /\ UNCHANGED dfsVars
    /\ UNCHANGED <<graphVars, loopVars, tableVars, algorithmCompleted,
                   displayVars, editorVars>>

\* ------------------------------------------------- findAllShortestPaths
\* Return of one call of dfs; the caller, when there is one, pops the node
\* it had pushed.
Return ==
    /\ callStack' = Front(callStack)
    /\ currentPath' =
          IF Len(callStack) > 1 THEN Front(currentPath) ELSE currentPath

\* dfs reached the start node: one complete path.
DfsRecord ==
    /\ pc = "dfs"
    /\ callStack # <<>>
    /\ Top.node = startNode
    /\ allPaths' = Append(allPaths, Reverse(currentPath))
    /\ Return
    /\ UNCHANGED <<graphVars, pc, loopVars, tableVars, resultVars, isRunning,
                   displayVars, editorVars>>

\* dfs pushes the next predecessor and calls itself.
DfsDescend ==
    /\ pc = "dfs"
    /\ callStack # <<>>
    /\ Top.node # startNode
    /\ Top.next <= Len(PredecessorsOf(Top.node))
    /\ Len(callStack) < StackLimit
    /\ LET predecessor == PredecessorsOf(Top.node)[Top.next]
       IN  /\ currentPath' = Append(currentPath, predecessor)
           /\ callStack' =
                 Append([callStack EXCEPT ![Len(callStack)].next = @ + 1],
                        [node |-> predecessor, next |-> 1])
    /\ UNCHANGED <<graphVars, pc, loopVars, tableVars, allPaths, resultVars,
                   isRunning, displayVars, editorVars>>

\* The recursion exhausts the call stack: RangeError, the handler is left.
DfsOverflow ==
    /\ pc = "dfs"
    /\ callStack # <<>>
    /\ Top.node # startNode
    /\ Top.next <= Len(PredecessorsOf(Top.node))
    /\ Len(callStack) >= StackLimit
    /\ pc' = "crashed"
    /\ UNCHANGED <<graphVars, loopVars, tableVars, dfsVars, resultVars,
                   isRunning, displayVars, editorVars>>

\* The for loop over the predecessors of the current node is exhausted.
DfsReturn ==
    /\ pc = "dfs"
    /\ callStack # <<>>
    /\ Top.node # startNode
    /\ Top.next > Len(PredecessorsOf(Top.node))
    /\ Return
    /\ UNCHANGED <<graphVars, pc, loopVars, tableVars, allPaths, resultVars,
                   isRunning, displayVars, editorVars>>

\* setNodes after the enumeration: every node takes its distance, its
\* predecessors and, as previous, the first of them.
PublishedData(ns) ==
    [k \in 1..Len(ns) |->
        [distance |-> DistanceOf(ns[k]),
         predecessors |-> PredecessorsOf(ns[k]),
         previous |->
            IF PredecessorsOf(ns[k]) # <<>>
            THEN PredecessorsOf(ns[k])[1] ELSE NULL]]

\* Variant: setNodes keeps only the nodes the run has reached.
KeptIds_ReachedOnly(ns) == SelectSeq(ns, LAMBDA v : IsFin(DistanceOf(v)))

\* prevNodes.map(node => ({...node, ...})): every node stays, in its place,
\* under its id.
KeptIds(ns) == [k \in 1..Len(ns) |-> ns[k]]

\* findAllShortestPaths returned: publish the paths, the distance and the
\* node fields; back in the click handler, setIsRunning(true).
RunCommit ==
    /\ pc = "dfs"
    /\ callStack = <<>>
    /\ allOptimalPaths' = allPaths
    /\ optimalPath' = IF allPaths # <<>> THEN allPaths[1] ELSE <<>>
    /\ optimalDistance' = DistanceOf(endNode)
    /\ nodes' = KeptIds(nodes)
    /\ nodeData' = PublishedData(nodes')
    /\ isRunning' = TRUE
    /\ pc' = "done"
    /\ UNCHANGED <<edges, startNode, endNode, optimizationMode, loopVars, tableVars, dfsVars, hasNegativeCycle,
                   algorithmSteps, currentStep, algorithmCompleted, edgeActive,
                   editorVars>>

Next ==
    \/ RunRefused
    \/ RunStart
    \/ RelaxEdge
    \/ EndRound
    \/ DetectEdge
    \/ EndDetect
    \/ DfsRecord
    \/ DfsDescend
    \/ DfsOverflow
    \/ DfsReturn
    \/ RunCommit

Spec == Init /\ [][Next]_vars

\* ---------------------------------------------- the graph, as mathematics
HasEdge(u, v) == \E ed \in Range(edges) : ed.from = u /\ ed.to = v

Weight(u, v) == (CHOOSE ed \in Range(edges) : ed.from = u /\ ed.to = v).weight

\* Sequences of pairwise distinct nodes.
SimpleSeqs ==
    {p \in UNION {[1..k -> Range(nodes)] : k \in 1..Len(nodes)} :
        \A j, k \in 1..Len(p) : p[j] = p[k] => j = k}

FollowsEdges(p) == \A k \in 1..(Len(p) - 1) : HasEdge(p[k], p[k + 1])

RECURSIVE SumUpTo(_, _)
SumUpTo(p, k) ==
    IF k <= 1 THEN 0 ELSE SumUpTo(p, k - 1) + Weight(p[k - 1], p[k])

PathSum(p) == SumUpTo(p, Len(p))

SimplePaths(s, t) ==
    {p \in SimpleSeqs : p[1] = s /\ p[Len(p)] = t /\ FollowsEdges(p)}

Reachable(v) == SimplePaths(startNode, v) # {}

Minimum(S) == CHOOSE x \in S : \A y \in S : x <= y
Maximum(S) == CHOOSE x \in S : \A y \in S : x >= y

\* The optimum of the mode over the simple paths from the source to v. With
\* no improving cycle on the way, walks that repeat a node add nothing.
OptimalSum(v) ==
    LET sums == {PathSum(p) : p \in SimplePaths(startNode, v)}
    IN  IF optimizationMode = "min" THEN Minimum(sums) ELSE Maximum(sums)

CycleSum(c) == PathSum(c) + Weight(c[Len(c)], c[1])

IsCycle(c) == Len(c) >= 2 /\ FollowsEdges(c) /\ HasEdge(c[Len(c)], c[1])

Improving(c) ==
    IF optimizationMode = "min" THEN CycleSum(c) < 0 ELSE CycleSum(c) > 0

ImprovingCycleReachable ==
    \E c \in SimpleSeqs : IsCycle(c) /\ Improving(c) /\ Reachable(c[1])

\* A directed cycle of the predecessor relation among the reached nodes.
PredecessorCycle ==
    \E c \in SimpleSeqs :
        /\ \A k \in 1..Len(c) : IsFin(nodeDistances[c[k]])
        /\ \A k \in 1..(Len(c) - 1) : c[k] \in Range(nodePredecessors[c[k + 1]])
        /\ c[Len(c)] \in Range(nodePredecessors[c[1]])

NoRepeat(s) == \A j, k \in 1..Len(s) : s[j] = s[k] => j = k

\* Relaxation and detection are over: the tables are final.
PassesOver == pc \in {"dfs", "done", "crashed"}

Certified == PassesOver /\ ~hasNegativeCycle

\* ---------------------------------------------------------------- claims

\* C1: when the passes end with cycleDetected = false and the target's
\* distance is finite, the backward enumeration started at the target
\* terminates. With the predecessor table fixed, dfs terminates exactly when
\* it never re-enters a node of its current path; a re-entry recurses until
\* the call stack is exhausted.
C1_EnumerationTerminates ==
    (Certified /\ IsFin(nodeDistances[endNode])) =>
        (pc # "crashed" /\ NoRepeat(currentPath))

\* C2: when a run ends with cycleDetected = false, the predecessor relation
\* restricted to the nodes of finite distance has no directed cycle.
C2_PredecessorsAcyclic == Certified => ~PredecessorCycle

\* C7: when a run ends with cycleDetected = false, every edge (u,v,w) with
\* distance[u] finite and distance[u] + w = distance[v] has u in
\* predecessors[v].
C7_AllTightEdgesRecorded ==
    Certified =>
        \A ed \in Range(edges) :
            (/\ IsFin(nodeDistances[ed.from])
             /\ Plus(nodeDistances[ed.from], ed.weight) = nodeDistances[ed.to])
            => ed.from \in Range(nodePredecessors[ed.to])

\* C10 as stated: at the end of every run, distance[source] = 0.
C10_SourceZeroEveryRun == PassesOver => nodeDistances[startNode] = Fin(0)

\* C10 as amended: at the end of every run that ends with
\* cycleDetected = false, under both modes, distance[source] = 0.
C10_SourceZeroWhenCertified == Certified => nodeDistances[startNode] = Fin(0)

\* A certified run on a graph with an edge that enters the source from a
\* reached node.
C10_Witness ==
    /\ pc = "done"
    /\ ~hasNegativeCycle
    /\ \E ed \in Range(edges) :
          ed.to = startNode /\ IsFin(nodeDistances[ed.from])

\* C3: when a run ends with cycleDetected = false, distance[v] is the
\* unreached sentinel exactly when v is not reachable from the source, and
\* otherwise the minimum (Minimize) or maximum (Maximize) of the weight sums
\* over the source-to-v paths.
C3_DistancesOptimal ==
    Certified =>
        \A v \in Range(nodes) :
            IF Reachable(v)
            THEN nodeDistances[v] = Fin(OptimalSum(v))
            ELSE nodeDistances[v] = Unreached(optimizationMode)

\* A certified run in which some node has source paths of different sums.
C3_Witness ==
    /\ pc = "done"
    /\ ~hasNegativeCycle
    /\ \E v \in Range(nodes) :
          Cardinality({PathSum(p) : p \in SimplePaths(startNode, v)}) >= 2

\* C4: the run ends with cycleDetected = true if and only if the graph has
\* an improving cycle reachable from the source, whether the relaxation loop
\* ran all its rounds or left early.
C4_CycleFlagExact == PassesOver => (hasNegativeCycle <=> ImprovingCycleReachable)

\* A run that used all |V|-1 rounds and flagged a cycle.
C4_Witness ==
    /\ pc = "done"
    /\ hasNegativeCycle
    /\ i = Len(nodes) - 1
    /\ ImprovingCycleReachable

\* C5: when a run completes with cycleDetected = false and a reachable
\* target, optimalPaths as a set is the set of the simple source-to-target
\* paths whose weight sum is the optimal distance, and lists no path twice.
C5_AllOptimalPathsExactly ==
    (pc = "done" /\ ~hasNegativeCycle /\ Reachable(endNode)) =>
        /\ Range(allOptimalPaths) =
              {p \in SimplePaths(startNode, endNode) :
                  Fin(PathSum(p)) = optimalDistance}
        /\ NoRepeat(allOptimalPaths)

\* A completed run that found tied optimal paths.
C5_Witness == pc = "done" /\ Len(allOptimalPaths) >= 2

\* C6: every path of optimalPaths of a completed run starts at the source,
\* ends at the target, follows edges, and its weight sum is optimalDistance,
\* which is distance[target].
C6_PathSumLaw ==
    pc = "done" =>
        \A k \in 1..Len(allOptimalPaths) :
            LET p == allOptimalPaths[k]
            IN  /\ p[1] = startNode
                /\ p[Len(p)] = endNode
                /\ FollowsEdges(p)
                /\ optimalDistance = Fin(PathSum(p))
                /\ optimalDistance = nodeDistances[endNode]

\* A completed run with an optimal path of at least two edges.
C6_Witness ==
    /\ pc = "done"
    /\ \E k \in 1..Len(allOptimalPaths) : Len(allOptimalPaths[k]) >= 3

\* C8: when cycleDetected is true at the end of a run, no enumeration has
\* been performed and the result is optimalDistance = none, optimalPaths = [],
\* whatever the target's own distance is.
C8_CycleSuppressesPaths ==
    (PassesOver /\ hasNegativeCycle) =>
        /\ pc = "done"
        /\ callStack = <<>> /\ allPaths = <<>>
        /\ optimalDistance = NoDistance
        /\ allOptimalPaths = <<>>
        /\ optimalPath = <<>>

\* A run that flagged a cycle although the target had a finite distance.
C8_Witness ==
    pc = "done" /\ hasNegativeCycle /\ IsFin(nodeDistances[endNode])

\* C9: when the target is not reachable from the source, the run completes
\* with optimalDistance = none and optimalPaths = [] under both modes; it
\* neither starts the enumeration nor fails.
C9_UnreachableIsNormal ==
    (PassesOver /\ ~Reachable(endNode)) =>
        /\ pc = "done"
        /\ optimalDistance = NoDistance
        /\ allOptimalPaths = <<>>
        /\ optimalPath = <<>>

\* A Maximize run whose target differs from the source and has no incoming
\* edge, in a graph that has edges.
C9_Witness ==
    /\ pc = "done"
    /\ optimizationMode = "max"
    /\ endNode # startNode
    /\ edges # <<>>
    /\ \A ed \in Range(edges) : ed.to # endNode

\* C11: predecessors[source] is empty after initialization, after every
\* relaxation of an edge and at the end of every run.
C11_SourceHasNoPredecessor ==
    startNode \in DOMAIN nodePredecessors => nodePredecessors[startNode] = <<>>

\* C15: a run leaves the node ids and their order, the edge list, the
\* designated source and target and the optimization mode as they were.
C15_RunKeepsGraph == [][UNCHANGED graphVars]_vars

\* A completed run that has rewritten the fields of the nodes.
C15_Witness ==
    /\ pc = "done"
    /\ edges # <<>>
    /\ nodeData # DesignatedData(nodes, startNode)

\* The list under the run button of what is still required.
Requirements ==
    IF CanRunAlgorithm(startNode, endNode, nodes)
    THEN {}
    ELSE {r \in {"start", "end", "nodes"} :
            \/ r = "start" /\ startNode = NULL
            \/ r = "end" /\ endNode = NULL
            \/ r = "nodes" /\ Len(nodes) = 0}

\* C16: with the source or the target not designated a requested run is
\* refused and the missing endpoint is reported: no table is computed, no
\* step is logged, the earlier steps, paths, distance, cycle flag and
\* completion flag stay as they are, and the endpoints stay undesignated.
C16_MissingEndpointsRefused ==
    [][(startNode = NULL \/ endNode = NULL) =>
          /\ UNCHANGED <<pc, tableVars, resultVars, startNode, endNode>>
          /\ startNode = NULL => "start" \in Requirements
          /\ endNode = NULL => "end" \in Requirements]_vars

\* A graph with edges and a designated source but no target, where the run
\* has been requested.
C16_Witness ==
    /\ ENABLED RunRefused
    /\ startNode # NULL
    /\ endNode = NULL
    /\ edges # <<>>
    /\ optimizationMode = "max"

\* ------------------------------------- the relaxation loop as a function
\* The tables of a run: distances d, predecessors p, steps s and the
\* updated flag u of the round in progress.
Lookup(f, v) == IF v \in DOMAIN f THEN f[v] ELSE Undefined

StartTables(m, ns, s) ==
    [d |-> [v \in Range(ns) |-> IF v = s THEN Fin(0) ELSE Unreached(m)],
     p |-> [v \in Range(ns) |-> <<>>],
     s |-> <<>>,
     u |-> FALSE]

\* The callback of edges.forEach of the relaxation loop, on one edge.
FnRelaxEdge(m, t, edge, round) ==
    LET fromDistance == Lookup(t.d, edge.from)
        toDistance == Lookup(t.d, edge.to)
        newDistance == Plus(fromDistance, edge.weight)
    IN  IF ShouldUpdate(m, fromDistance, toDistance, edge.weight)
        THEN [d |-> [t.d EXCEPT ![edge.to] = newDistance],
              p |-> [t.p EXCEPT ![edge.to] = ReplacePredecessors(@, edge.from)],
              s |-> Append(t.s,
                     [iteration |-> round,
                      updatedNode |-> edge.to,
                      distance |-> newDistance,
                      previous |-> edge.from,
                      description |->
                          IF m = "min" THEN "Relaxation" ELSE "Amelioration"]),
              u |-> TRUE]
        ELSE IF /\ IsEqual(m, fromDistance, toDistance, edge.weight)
                /\ edge.from \notin Range(t.p[edge.to])
        THEN [d |-> t.d,
              p |-> [t.p EXCEPT ![edge.to] = AddPredecessor(@, edge.from)],
              s |-> Append(t.s,
                     [iteration |-> round,
                      updatedNode |-> edge.to,
                      distance |-> newDistance,
                      previous |-> edge.from,
                      description |-> "Chemin alternatif"]),
              u |-> t.u]
        ELSE t

\* edges.forEach from edge k on.
RECURSIVE FnPass(_, _, _, _, _)
FnPass(m, es, k, t, round) ==
    IF k > Len(es) THEN t
    ELSE FnPass(m, es, k + 1, FnRelaxEdge(m, t, es[k], round), round)

\* for (let i = 0; i < nodes.length - 1; i++) from round i on; earlyExit is
\* the "if (!updated) break" of the code, and without it the loop is the
\* same loop made to run all its rounds.
RECURSIVE FnRounds(_, _, _, _, _, _)
FnRounds(m, n, es, t, round, earlyExit) ==
    IF ~(round < n - 1) THEN t
    ELSE LET after == FnPass(m, es, 1, [t EXCEPT !.u = FALSE], round + 1)
         IN  IF earlyExit /\ ~after.u
             THEN after
             ELSE FnRounds(m, n, es, after, round + 1, earlyExit)

\* Graphs of one node more, where a round can be skipped after a round
\* that improved; the source is the first node.
InitWide ==
    /\ nodes = NodeList(NumNodes + 1)
    /\ edges \in EdgeLists(NumNodes + 1)
    /\ startNode = nodes[1]
    /\ endNode \in {nodes[Len(nodes)], NULL}
    /\ optimizationMode \in Modes
    /\ nodeData = DesignatedData(nodes, startNode)
    /\ edgeActive = [k \in 1..Len(edges) |-> FALSE]
    /\ EditorAtRest
    /\ NothingRun

SpecWide == InitWide /\ [][Next]_vars

\* The tables of the loop made to run all its |V| - 1 rounds.
AllRounds ==
    FnRounds(optimizationMode, Len(nodes), edges,
             StartTables(optimizationMode, nodes, startNode), 0, FALSE)

\* C12: once the relaxation loop is left, at the first round without an
\* improvement or after its last round, the distances and the predecessor
\* lists (members and order) are those of the same loop run for all
\* |V| - 1 rounds.
C12_EarlyExitEquivalence ==
    pc \in {"detect", "dfs", "done", "crashed"} =>
        /\ nodeDistances = AllRounds.d
        /\ nodePredecessors = AllRounds.p

\* The loop was left in its second round of three, which recorded a tie
\* and no improvement.
C12_Witness ==
    /\ pc = "detect"
    /\ Len(nodes) = NumNodes + 1
    /\ i = 1
    /\ ~updated
    /\ \E k \in 1..Len(steps) :
          steps[k].iteration = 2 /\ steps[k].description = "Chemin alternatif"

\* ------------------------------------------ the whole run as a function
\* The callback of edges.forEach of the cycle detection, from edge k on;
\* acc holds the flag c and the steps s.
RECURSIVE FnDetect(_, _, _, _, _, _)
FnDetect(m, n, es, k, d, acc) ==
    IF k > Len(es) THEN acc
    ELSE LET edge == es[k]
             fromDistance == Lookup(d, edge.from)
             toDistance == Lookup(d, edge.to)
         IN  FnDetect(m, n, es, k + 1, d,
                IF StillImproves(m, fromDistance, toDistance, edge.weight)
                THEN [c |-> TRUE,
                      s |-> Append(acc.s,
                             [iteration |-> n,
                              updatedNode |-> edge.to,
                              distance |-> IF m = "min" THEN NegInf ELSE PosInf,
                              previous |-> NULL,
                              description |->
                                  IF m = "min"
                                  THEN "Cycle negatif detecte!"
                                  ELSE "Cycle positif detecte!"])]
                ELSE acc)

\* dfs of findAllShortestPaths on the path walked so far (target first);
\* acc holds the paths found and whether the call stack was exhausted.
RECURSIVE FnDfs(_, _, _, _)
RECURSIVE FnDfsLoop(_, _, _, _, _)
FnDfs(p, s, path, acc) ==
    IF acc.crashed THEN acc
    ELSE IF path[Len(path)] = s
    THEN [acc EXCEPT !.paths = Append(@, Reverse(path))]
    ELSE FnDfsLoop(p, s, path, 1, acc)

\* The for loop of dfs over the predecessors of the current node.
FnDfsLoop(p, s, path, k, acc) ==
    LET currentNode == path[Len(path)]
        predecessors == IF currentNode \in DOMAIN p THEN p[currentNode] ELSE <<>>
    IN  IF acc.crashed \/ k > Len(predecessors) THEN acc
        ELSE IF Len(path) >= StackLimit THEN [acc EXCEPT !.crashed = TRUE]
        ELSE FnDfsLoop(p, s, path, k + 1,
                       FnDfs(p, s, Append(path, predecessors[k]), acc))

\* runBellmanFord on nodes ns, edges es, source s, target t and mode m:
\* what it computes and publishes.
FnRun(ns, es, s, t, m) ==
    LET tables == FnRounds(m, Len(ns), es, StartTables(m, ns, s), 0, TRUE)
        detection == FnDetect(m, Len(ns), es, 1, tables.d,
                              [c |-> FALSE, s |-> tables.s])
        enumerate == EnumeratePaths(m, detection.c, Lookup(tables.d, t))
        found == IF enumerate
                 THEN FnDfs(tables.p, s, <<t>>,
                            [paths |-> <<>>, crashed |-> FALSE])
                 ELSE [paths |-> <<>>, crashed |-> FALSE]
    IN  [distances |-> tables.d,
         predecessors |-> tables.p,
         steps |-> detection.s,
         cycleDetected |-> detection.c,
         crashed |-> found.crashed,
         optimalPaths |-> IF found.crashed THEN <<>> ELSE found.paths,
         optimalDistance |->
             IF enumerate /\ ~found.crashed
             THEN Lookup(tables.d, t) ELSE NoDistance]

\* The run has returned or was broken off by the RangeError.
RunOver == pc \in {"done", "crashed"}

\* The mirror image of a run: every weight negated, the other mode.
Negated(es) == [k \in 1..Len(es) |-> [es[k] EXCEPT !.weight = 0 - @]]
OtherMode(m) == IF m = "min" THEN "max" ELSE "min"
Opposite(d) ==
    IF IsFin(d) THEN Fin(0 - d.v)
    ELSE IF d = PosInf THEN NegInf
    ELSE IF d = NegInf THEN PosInf ELSE d
Touched(ss) ==
    [k \in 1..Len(ss) |->
        [updatedNode |-> ss[k].updatedNode, previous |-> ss[k].previous]]
Mirror == FnRun(nodes, Negated(edges), startNode, endNode,
                OtherMode(optimizationMode))

\* C14: a run under one mode and the run under the other mode on the same
\* graph with every weight negated have the same cycle flag, the same
\* predecessor lists, the same optimal paths in the same order, steps that
\* touch the same (node, predecessor) pairs in the same order, and
\* distances that are each other's negation node by node.
C14_MinMaxSymmetry ==
    RunOver =>
        /\ hasNegativeCycle = Mirror.cycleDetected
        /\ nodePredecessors = Mirror.predecessors
        /\ allOptimalPaths = Mirror.optimalPaths
        /\ (pc = "crashed") = Mirror.crashed
        /\ Touched(algorithmSteps) = Touched(Mirror.steps)
        /\ \A v \in Range(nodes) :
              nodeDistances[v] = Opposite(Mirror.distances[v])

\* A completed Maximize run with an improvement, a tie and two optimal
\* paths.
C14_Witness ==
    /\ pc = "done"
    /\ optimizationMode = "max"
    /\ Len(allOptimalPaths) = 2
    /\ \E k \in 1..Len(algorithmSteps) :
          algorithmSteps[k].description = "Chemin alternatif"
    /\ \E ed \in Range(edges) : ed.weight # 0

\* ------------------------------------------------------------ the replay
\* Variant: the tick applies its step and leaves currentStep where it is.
AnimationTick_Stalls ==
    /\ pc \in {"idle", "done", "crashed"}
    /\ isRunning
    /\ currentStep < Len(algorithmSteps)
    /\ LET step == algorithmSteps[currentStep + 1]
       IN  /\ nodeData' =
                 [k \in 1..Len(nodes) |->
                     IF nodes[k] = step.updatedNode
                     THEN [nodeData[k] EXCEPT !.distance = step.distance,
                                              !.previous = step.previous]
                     ELSE nodeData[k]]
           /\ edgeActive' =
                 [k \in 1..Len(edges) |->
                     /\ step.previous # NULL
                     /\ edges[k].from = step.previous
                     /\ edges[k].to = step.updatedNode]
    /\ currentStep' = currentStep
    /\ UNCHANGED <<graphVars, pc, loopVars, tableVars, dfsVars,
                   hasNegativeCycle, algorithmSteps, optimalPath,
                   allOptimalPaths, optimalDistance, algorithmCompleted,
                   isRunning, editorVars>>

\* Variant: the tick does not look at isRunning.
AnimationTick_WhilePaused ==
    /\ pc \in {"idle", "done", "crashed"}
    /\ currentStep < Len(algorithmSteps)
    /\ LET step == algorithmSteps[currentStep + 1]
       IN  /\ nodeData' =
                 [k \in 1..Len(nodes) |->
                     IF nodes[k] = step.updatedNode
                     THEN [nodeData[k] EXCEPT !.distance = step.distance,
                                              !.previous = step.previous]
                     ELSE nodeData[k]]
           /\ edgeActive' =
                 [k \in 1..Len(edges) |->
                     /\ step.previous # NULL
                     /\ edges[k].from = step.previous
                     /\ edges[k].to = step.updatedNode]
    /\ currentStep' = currentStep + 1
    /\ UNCHANGED <<graphVars, pc, loopVars, tableVars, dfsVars,
                   hasNegativeCycle, algorithmSteps, optimalPath,
                   allOptimalPaths, optimalDistance, algorithmCompleted,
                   isRunning, editorVars>>

\* The timer of the animation effect fires: the step at currentStep is
\* applied to the node it names and to the isActive flag of every edge.
AnimationTick ==
    /\ pc \in {"idle", "done", "crashed"}
    /\ isRunning
    /\ currentStep < Len(algorithmSteps)
    /\ LET step == algorithmSteps[currentStep + 1]
       IN  /\ nodeData' =
                 [k \in 1..Len(nodes) |->
                     IF nodes[k] = step.updatedNode
                     THEN [nodeData[k] EXCEPT !.distance = step.distance,
                                              !.previous = step.previous]
                     ELSE nodeData[k]]
           /\ edgeActive' =
                 [k \in 1..Len(edges) |->
                     /\ step.previous # NULL
                     /\ edges[k].from = step.previous
                     /\ edges[k].to = step.updatedNode]
    /\ currentStep' = currentStep + 1
    /\ UNCHANGED <<graphVars, pc, loopVars, tableVars, dfsVars,
                   hasNegativeCycle, algorithmSteps, optimalPath,
                   allOptimalPaths, optimalDistance, algorithmCompleted,
                   isRunning, editorVars>>

\* The effect finds every step applied: the replay is complete.
AnimationEnd ==
    /\ pc \in {"idle", "done", "crashed"}
    /\ isRunning
    /\ currentStep >= Len(algorithmSteps)
    /\ isRunning' = FALSE
    /\ algorithmCompleted' = TRUE
    /\ edgeActive' = [k \in 1..Len(edges) |-> FALSE]
    /\ UNCHANGED <<graphVars, pc, loopVars, tableVars, dfsVars,
                   hasNegativeCycle, algorithmSteps, currentStep, optimalPath,
                   allOptimalPaths, optimalDistance, nodeData, editorVars>>

\* Variant: pausing also rewinds the replay.
PauseReplay_Rewinds ==
    /\ pc \in {"idle", "done", "crashed"}
    /\ isRunning
    /\ CanRunAlgorithm(startNode, endNode, nodes)
    /\ isRunning' = FALSE
    /\ currentStep' = 0
    /\ UNCHANGED <<graphVars, pc, loopVars, tableVars, dfsVars,
                   hasNegativeCycle, algorithmSteps, optimalPath,
                   allOptimalPaths, optimalDistance, algorithmCompleted,
                   displayVars, editorVars>>

\* The run button while the replay is running: pause.
PauseReplay ==
    /\ pc \in {"idle", "done", "crashed"}
    /\ isRunning
    /\ CanRunAlgorithm(startNode, endNode, nodes)
    /\ isRunning' = FALSE
    /\ UNCHANGED <<graphVars, pc, loopVars, tableVars, dfsVars, resultVars,
                   displayVars, editorVars>>

\* Graphs whose source is the first node, run and replayed, paused and run
\* again any number of times.
InitReplay ==
    /\ \E n \in 1..NumNodes :
          /\ nodes = NodeList(n)
          /\ edges \in EdgeLists(n)
    /\ startNode = nodes[1]
    /\ endNode \in {nodes[Len(nodes)], NULL}
    /\ optimizationMode \in Modes
    /\ nodeData = DesignatedData(nodes, startNode)
    /\ edgeActive = [k \in 1..Len(edges) |-> FALSE]
    /\ EditorAtRest
    /\ NothingRun

NextReplay ==
    \/ RunRefused
    \/ RunStart
    \/ RelaxEdge
    \/ EndRound
    \/ DetectEdge
    \/ EndDetect
    \/ DfsRecord
    \/ DfsDescend
    \/ DfsOverflow
    \/ DfsReturn
    \/ RunCommit
    \/ AnimationTick
    \/ AnimationEnd
    \/ PauseReplay

SpecReplay == InitReplay /\ [][NextReplay]_vars

\* What runBellmanFord computes from the graph as it stands.
Expected == FnRun(nodes, edges, startNode, endNode, optimizationMode)

\* C13: whenever a run is over, the first one or one made after earlier
\* runs and replays have left their values on the nodes and edges, its
\* distances, predecessor lists, steps, cycle flag, optimal distance and
\* optimal paths are those the node ids, the edge list, the source, the
\* target and the mode determine.
C13_ResultIsFunctionOfInputs ==
    RunOver =>
        /\ nodeDistances = Expected.distances
        /\ nodePredecessors = Expected.predecessors
        /\ algorithmSteps = Expected.steps
        /\ hasNegativeCycle = Expected.cycleDetected
        /\ optimalDistance = Expected.optimalDistance
        /\ allOptimalPaths = Expected.optimalPaths
        /\ optimalPath =
              IF Expected.optimalPaths # <<>>
              THEN Expected.optimalPaths[1] ELSE <<>>

\* A run just completed while an edge is still highlighted and a node still
\* shows the distance of a step: the replay of an earlier run was paused.
C13_Witness ==
    /\ pc = "done"
    /\ isRunning
    /\ currentStep = 0
    /\ \E k \in 1..Len(edges) : edgeActive[k]
    /\ Len(algorithmSteps) >= 2

\* C18: a tick of the replay marks an edge active only when the step it
\* applies is an improvement and the edge runs from the step's previous
\* node to its updated node; a tie step or a cycle step marks none.
C18_OnlyImprovementsHighlight ==
    [][(isRunning /\ currentStep' = currentStep + 1) =>
          LET step == algorithmSteps[currentStep + 1]
          IN  \A k \in 1..Len(edges) :
                 edgeActive'[k] =>
                    /\ step.description \in {"Relaxation", "Amelioration"}
                    /\ edges[k].from = step.previous
                    /\ edges[k].to = step.updatedNode]_vars

\* ---------------------------------------------------- a restored session
\* loadSession takes nodes, edges, endpoints and mode from the saved
\* session as they are. The sessions drawn here hold a graph the editor
\* could have built followed by one damaged edge: an edge with an endpoint
\* that is no node of the session, or a second edge of an ordered pair.
DamagedEdges(n, es) ==
    {[from |-> Letters[a], to |-> Letters[n + 1], weight |-> MaxWeight] :
        a \in 1..n}
    \cup {[from |-> Letters[n + 1], to |-> Letters[b], weight |-> MaxWeight] :
        b \in 1..n}
    \cup {[from |-> es[k].from, to |-> es[k].to, weight |-> MaxWeight] :
        k \in 1..Len(es)}

InitLoaded ==
    /\ nodes = NodeList(NumNodes)
    /\ \E es \in EdgeLists(NumNodes) :
          \E damaged \in DamagedEdges(NumNodes, es) :
             edges = Append(es, damaged)
    /\ startNode = nodes[1]
    /\ endNode \in {nodes[Len(nodes)], NULL}
    /\ optimizationMode \in Modes
    /\ nodeData = DesignatedData(nodes, startNode)
    /\ edgeActive = [k \in 1..Len(edges) |-> FALSE]
    /\ EditorAtRest
    /\ NothingRun

SpecLoaded == InitLoaded /\ [][Next]_vars

\* The structural defects of a graph: a dangling endpoint, or two edges of
\* the same ordered pair.
InvalidGraph ==
    \/ \E k \in 1..Len(edges) :
          edges[k].from \notin Range(nodes) \/ edges[k].to \notin Range(nodes)
    \/ \E j, k \in 1..Len(edges) :
          j # k /\ edges[j].from = edges[k].from /\ edges[j].to = edges[k].to

\* C17: on a graph with a dangling edge or a duplicated ordered pair the
\* run stops at once: it computes no distance, logs no step and publishes
\* no step and no path.
C17_InvalidGraphStopsRun ==
    InvalidGraph =>
        /\ pc = "idle"
        /\ nodeDistances = [v \in Range(nodes) |-> PosInf]
        /\ steps = <<>>
        /\ algorithmSteps = <<>>
        /\ allOptimalPaths = <<>>

\* ------------------------------------------------------------ the editor
\* What the user types into the two weight inputs.
TypedTexts == {"", "0", "-1", "1.5"}

\* Number.parseInt on the texts the inputs can hold: the leading integer,
\* NaN without one.
ParseInt(text) ==
    CASE text = "0" -> Fin(0)
      [] text = "1" -> Fin(1)
      [] text = "-1" -> Fin(0 - 1)
      [] text = "1.5" -> Fin(1)
      [] OTHER -> NaN

\* (weight || 0).toString() on a weight the editor has stored.
WeightText(w) ==
    CASE w = 0 -> "0"
      [] w = 1 -> "1"
      [] w = 0 - 1 -> "-1"

\* generateEdgeId
GenerateEdgeId(from, to) == <<from, to>>

EdgeId(edge) == GenerateEdgeId(edge.from, edge.to)

\* The component as it mounts, with no saved session.
InitEditor ==
    /\ nodes = <<>>
    /\ edges = <<>>
    /\ startNode = NULL
    /\ endNode = NULL
    /\ optimizationMode = "min"
    /\ nodeData = <<>>
    /\ edgeActive = <<>>
    /\ EditorAtRest
    /\ NothingRun

\* A handler runs while no other does, and the canvas and the side panel
\* are out of reach while the weight dialog is open.
CanvasFree ==
    /\ pc \in {"idle", "done", "crashed"}
    /\ editingEdge = <<>>

\* findNearestEdge only finds an edge whose two endpoints are drawn.
Clickable(edge) == edge.from \in Range(nodes) /\ edge.to \in Range(nodes)

\* One of the five mode buttons.
SetMode ==
    /\ CanvasFree
    /\ \E m \in {"add", "connect", "select", "delete-edge", "edit-edge"} :
          mode' = m
    /\ connectingFrom' = NULL
    /\ UNCHANGED <<graphVars, pc, loopVars, tableVars, dfsVars, resultVars,
                   isRunning, displayVars, selectedNode, edgeWeight,
                   editingEdge, newWeight>>

\* The weight input of the connect tool.
TypeEdgeWeight ==
    /\ CanvasFree
    /\ mode = "connect"
    /\ \E text \in TypedTexts : edgeWeight' = text
    /\ UNCHANGED <<graphVars, pc, loopVars, tableVars, dfsVars, resultVars,
                   isRunning, displayVars, mode, selectedNode, connectingFrom,
                   editingEdge, newWeight>>

\* handleCanvasClick in mode "add" on an empty spot.
AddNode ==
    /\ CanvasFree
    /\ mode = "add"
    /\ Len(nodes) < EditorNodes
    /\ LET newId == Letters[Len(nodes) + 1]
       IN  nodes' = Append(nodes, newId)
    /\ nodeData' = Append(nodeData, NewNodeData)
    /\ UNCHANGED <<edges, startNode, endNode, optimizationMode, pc, loopVars,
                   tableVars, dfsVars, resultVars, isRunning, edgeActive,
                   editorVars>>

\* handleCanvasClick in mode "connect" on a node.
ConnectClick ==
    /\ CanvasFree
    /\ mode = "connect"
    /\ \E k \in 1..Len(nodes) :
          LET clickedNode == nodes[k]
              existingEdge ==
                  \E ed \in Range(edges) :
                     ed.from = connectingFrom /\ ed.to = clickedNode
              parsed == ParseInt(edgeWeight)
              weight == IF parsed = NaN \/ parsed = Fin(0) THEN 1 ELSE parsed.v
          IN  IF connectingFrom = NULL
              THEN /\ connectingFrom' = clickedNode
                   /\ UNCHANGED <<edges, edgeActive>>
              ELSE IF connectingFrom # clickedNode
              THEN /\ IF ~existingEdge /\ Len(edges) < EditorEdges
                      THEN /\ edges' = Append(edges,
                                  [from |-> connectingFrom,
                                   to |-> clickedNode,
                                   weight |-> weight])
                           /\ edgeActive' = Append(edgeActive, FALSE)
                      ELSE UNCHANGED <<edges, edgeActive>>
                   /\ connectingFrom' = NULL
              ELSE UNCHANGED <<edges, edgeActive, connectingFrom>>
    /\ UNCHANGED <<nodes, startNode, endNode, optimizationMode, pc, loopVars,
                   tableVars, dfsVars, resultVars, isRunning, nodeData, mode,
                   selectedNode, edgeWeight, editingEdge, newWeight>>

\* handleCanvasClick in mode "select" on a node.
SelectClick ==
    /\ CanvasFree
    /\ mode = "select"
    /\ \E k \in 1..Len(nodes) : selectedNode' = nodes[k]
    /\ UNCHANGED <<graphVars, pc, loopVars, tableVars, dfsVars, resultVars,
                   isRunning, displayVars, mode, connectingFrom, edgeWeight,
                   editingEdge, newWeight>>

\* handleCanvasClick in mode "delete-edge" on an edge.
DeleteEdgeClick ==
    /\ CanvasFree
    /\ mode = "delete-edge"
    /\ \E j \in 1..Len(edges) :
          /\ Clickable(edges[j])
          /\ LET clickedEdge == edges[j]
                 kept == SelectSeq([k \in 1..Len(edges) |->
                                       [edge |-> edges[k], isActive |-> edgeActive[k]]],
                                   LAMBDA z : EdgeId(z.edge) # EdgeId(clickedEdge))
             IN  /\ edges' = [k \in 1..Len(kept) |-> kept[k].edge]
                 /\ edgeActive' = [k \in 1..Len(kept) |-> kept[k].isActive]
    /\ UNCHANGED <<nodes, startNode, endNode, optimizationMode, pc, loopVars,
                   tableVars, dfsVars, resultVars, isRunning, nodeData,
                   editorVars>>

\* handleCanvasClick in mode "edit-edge" on an edge: the dialog opens on
\* the weight of the edge.
EditEdgeClick ==
    /\ CanvasFree
    /\ mode = "edit-edge"
    /\ \E j \in 1..Len(edges) :
          /\ Clickable(edges[j])
          /\ editingEdge' = EdgeId(edges[j])
          /\ newWeight' = WeightText(edges[j].weight)
    /\ UNCHANGED <<graphVars, pc, loopVars, tableVars, dfsVars, resultVars,
                   isRunning, displayVars, mode, selectedNode, connectingFrom,
                   edgeWeight>>

\* The weight input of the dialog.
TypeNewWeight ==
    /\ pc \in {"idle", "done", "crashed"}
    /\ editingEdge # <<>>
    /\ \E text \in TypedTexts : newWeight' = text
    /\ UNCHANGED <<graphVars, pc, loopVars, tableVars, dfsVars, resultVars,
                   isRunning, displayVars, mode, selectedNode, connectingFrom,
                   edgeWeight, editingEdge>>

\* saveEdgeEdit: nothing happens on a text without a leading integer.
SaveEdgeEdit ==
    /\ pc \in {"idle", "done", "crashed"}
    /\ editingEdge # <<>>
    /\ LET weight == ParseInt(newWeight)
       IN  IF weight = NaN
           THEN UNCHANGED <<edges, editingEdge, newWeight>>
           ELSE /\ edges' =
                      [k \in 1..Len(edges) |->
                          IF EdgeId(edges[k]) = editingEdge
                          THEN [edges[k] EXCEPT !.weight = weight.v]
                          ELSE edges[k]]
                /\ editingEdge' = <<>>
                /\ newWeight' = ""
    /\ UNCHANGED <<nodes, startNode, endNode, optimizationMode, pc, loopVars,
                   tableVars, dfsVars, resultVars, isRunning, displayVars,
                   mode, selectedNode, connectingFrom, edgeWeight>>

\* The Annuler button closes the dialog.
CancelEdgeEdit ==
    /\ pc \in {"idle", "done", "crashed"}
    /\ editingEdge # <<>>
    /\ editingEdge' = <<>>
    /\ UNCHANGED <<graphVars, pc, loopVars, tableVars, dfsVars, resultVars,
                   isRunning, displayVars, mode, selectedNode, connectingFrom,
                   edgeWeight, newWeight>>

\* setAsStart on the selected node.
SetAsStart ==
    /\ CanvasFree
    /\ selectedNode # NULL
    /\ nodeData' =
          [k \in 1..Len(nodes) |->
              [nodeData[k] EXCEPT
                  !.distance = IF nodes[k] = selectedNode THEN Fin(0) ELSE PosInf,
                  !.previous = NULL]]
    /\ startNode' = selectedNode
    /\ UNCHANGED <<nodes, edges, endNode, optimizationMode, pc, loopVars,
                   tableVars, dfsVars, resultVars, isRunning, edgeActive,
                   editorVars>>

\* setAsEnd on the selected node.
SetAsEnd ==
    /\ CanvasFree
    /\ selectedNode # NULL
    /\ endNode' = selectedNode
    /\ UNCHANGED <<nodes, edges, startNode, optimizationMode, pc, loopVars,
                   tableVars, dfsVars, resultVars, isRunning, displayVars,
                   editorVars>>

\* deleteNode on the selected node: the nodes of that id and the edges
\* that touch it go.
DeleteNode ==
    /\ CanvasFree
    /\ selectedNode # NULL
    /\ LET keptNodes == SelectSeq([k \in 1..Len(nodes) |->
                                      [id |-> nodes[k], data |-> nodeData[k]]],
                                  LAMBDA z : z.id # selectedNode)
           keptEdges == SelectSeq([k \in 1..Len(edges) |->
                                      [edge |-> edges[k], isActive |-> edgeActive[k]]],
                                  LAMBDA z : /\ z.edge.from # selectedNode
                                             /\ z.edge.to # selectedNode)
       IN  /\ nodes' = [k \in 1..Len(keptNodes) |-> keptNodes[k].id]
           /\ nodeData' = [k \in 1..Len(keptNodes) |-> keptNodes[k].data]
           /\ edges' = [k \in 1..Len(keptEdges) |-> keptEdges[k].edge]
           /\ edgeActive' = [k \in 1..Len(keptEdges) |-> keptEdges[k].isActive]
    /\ selectedNode' = NULL
    /\ UNCHANGED <<startNode, endNode, optimizationMode, pc, loopVars,
                   tableVars, dfsVars, resultVars, isRunning, mode,
                   connectingFrom, edgeWeight, editingEdge, newWeight>>

\* reset: the graph, the selections, the results and the tools go back to
\* their first values; the optimization mode stays.
Reset ==
    /\ CanvasFree
    /\ nodes' = <<>>
    /\ edges' = <<>>
    /\ nodeData' = <<>>
    /\ edgeActive' = <<>>
    /\ selectedNode' = NULL
    /\ connectingFrom' = NULL
    /\ startNode' = NULL
    /\ endNode' = NULL
    /\ isRunning' = FALSE
    /\ currentStep' = 0
    /\ algorithmSteps' = <<>>
    /\ optimalPath' = <<>>
    /\ allOptimalPaths' = <<>>
    /\ optimalDistance' = NoDistance
    /\ hasNegativeCycle' = FALSE
    /\ algorithmCompleted' = FALSE
    /\ mode' = "add"
    /\ edgeWeight' = "1"
    /\ editingEdge' = <<>>
    /\ newWeight' = ""
    /\ UNCHANGED <<optimizationMode, pc, loopVars, tableVars, dfsVars>>

NextEditor ==
    \/ SetMode
    \/ TypeEdgeWeight
    \/ AddNode
    \/ ConnectClick
    \/ SelectClick
    \/ DeleteEdgeClick
    \/ EditEdgeClick
    \/ TypeNewWeight
    \/ SaveEdgeEdit
    \/ CancelEdgeEdit
    \/ SetAsStart
    \/ SetAsEnd
    \/ DeleteNode
    \/ Reset

SpecEditor == InitEditor /\ [][NextEditor]_vars

\* C19: whatever the editor has been made to do, every edge runs between
\* two existing nodes, no ordered pair has two edges, no edge is a
\* self-loop and every weight is an integer.
C19_EdgesWellFormed ==
    /\ \A ed \in Range(edges) :
          /\ ed.from \in Range(nodes)
          /\ ed.to \in Range(nodes)
          /\ ed.from # ed.to
          /\ ed.weight \in Int
    /\ \A j, k \in 1..Len(edges) :
          (edges[j].from = edges[k].from /\ edges[j].to = edges[k].to) => j = k

\* C20: whatever nodes have been added and deleted, the ids of the nodes
\* are pairwise distinct.
C20_NodeIdsDistinct ==
    \A j, k \in 1..Len(nodes) : nodes[j] = nodes[k] => j = k

\* ------------------------------------------------------- the step trace
\* The kinds of step, told apart by their description.
IsImprovement(step) == step.description \in {"Relaxation", "Amelioration"}

IsTie(step) == step.description = "Chemin alternatif"

IsCycleStep(step) ==
    step.description \in {"Cycle negatif detecte!", "Cycle positif detecte!"}

\* C21: when a run ends with no cycle flagged, every member u of every
\* predecessor list of v is the tail of an edge u -> v of the graph, has a
\* finite distance, and distance[u] + w = distance[v] on the final
\* distances; no node occurs twice in a list.
C21_PredecessorsAreTight ==
    Certified =>
        \A v \in Range(nodes) :
           /\ NoRepeat(nodePredecessors[v])
           /\ \A u \in Range(nodePredecessors[v]) :
                 /\ HasEdge(u, v)
                 /\ IsFin(nodeDistances[u])
                 /\ Plus(nodeDistances[u], Weight(u, v)) = nodeDistances[v]

\* A certified run in which a later improvement of a node has replaced the
\* predecessor its first improvement had recorded.
C21_Witness ==
    /\ pc = "done"
    /\ ~hasNegativeCycle
    /\ \E v \in Range(nodes) :
          \E j, k \in 1..Len(algorithmSteps) :
             /\ j < k
             /\ algorithmSteps[j].updatedNode = v
             /\ algorithmSteps[k].updatedNode = v
             /\ IsImprovement(algorithmSteps[j])
             /\ IsImprovement(algorithmSteps[k])
             /\ algorithmSteps[j].previous \notin Range(nodePredecessors[v])
             /\ nodePredecessors[v] = <<algorithmSteps[k].previous>>

\* The order of a trace ss on a graph of n nodes.
TraceOrdered(ss, n) ==
    /\ \A k \in 1..Len(ss) :
          /\ (IsImprovement(ss[k]) \/ IsTie(ss[k])) =>
                ss[k].iteration \in 1..(n - 1)
          /\ IsCycleStep(ss[k]) =>
                /\ ss[k].iteration = n
                /\ \A j \in k..Len(ss) : IsCycleStep(ss[j])
          /\ (~IsCycleStep(ss[k]) /\ ss[k].iteration > 1) =>
                \E j \in 1..k :
                   /\ IsImprovement(ss[j])
                   /\ ss[j].iteration = ss[k].iteration - 1
    /\ \A j, k \in 1..Len(ss) : j < k => ss[j].iteration <= ss[k].iteration

\* C22: at every step of a run, improvement and tie steps carry an
\* iteration between 1 and |V| - 1, iterations never decrease along the
\* trace, a round is only entered after a round with an improvement, cycle
\* steps carry iteration |V| and come last; the loop counts at most |V| - 1
\* rounds and is left at the end of the first round without improvement.
C22_TraceAndRounds ==
    [][/\ TraceOrdered(steps', Len(nodes'))
       /\ TraceOrdered(algorithmSteps', Len(nodes'))
       /\ i' <= Len(nodes') - 1
       /\ (pc = "relax" /\ e > Len(edges) /\ ~updated) => pc' = "detect"]_vars

\* A published trace with steps of two rounds followed by a cycle step.
C22_Witness ==
    /\ pc = "done"
    /\ \E j, k, l \in 1..Len(algorithmSteps) :
          /\ j < k /\ k < l
          /\ algorithmSteps[j].iteration = 1
          /\ algorithmSteps[k].iteration = 2
          /\ IsCycleStep(algorithmSteps[l])

\* The steps of a trace applied in order to a table of distances.
RECURSIVE ApplySteps(_, _, _)
ApplySteps(d, ss, k) ==
    IF k > Len(ss) THEN d
    ELSE ApplySteps([d EXCEPT ![ss[k].updatedNode] = ss[k].distance], ss, k + 1)

LastStepOn(ss, v) ==
    ss[CHOOSE k \in 1..Len(ss) :
          /\ ss[k].updatedNode = v
          /\ \A j \in (k + 1)..Len(ss) : ss[j].updatedNode # v]

\* C29: when a run ends with no cycle flagged, the steps of its trace
\* applied in order to the initial table of distances give the final
\* table, and for every node a step touches, the previous of its last step
\* is in the node's final predecessor list.
C29_TraceRebuildsTable ==
    Certified =>
        /\ ApplySteps(StartTables(optimizationMode, nodes, startNode).d,
                      algorithmSteps, 1) = nodeDistances
        /\ \A v \in Range(nodes) :
              (\E k \in 1..Len(algorithmSteps) :
                  algorithmSteps[k].updatedNode = v) =>
                 LastStepOn(algorithmSteps, v).previous
                    \in Range(nodePredecessors[v])

\* A certified run under Maximize whose trace lowers nothing and ends on a
\* tie step for a node it had improved twice.
C29_Witness ==
    /\ pc = "done"
    /\ ~hasNegativeCycle
    /\ optimizationMode = "max"
    /\ Len(algorithmSteps) >= 3
    /\ IsTie(algorithmSteps[Len(algorithmSteps)])
    /\ \E j \in 1..Len(algorithmSteps) :
          /\ IsImprovement(algorithmSteps[j])
          /\ algorithmSteps[j].updatedNode =
                algorithmSteps[Len(algorithmSteps)].updatedNode

\* C30: a run that logged an improvement of the source's own distance ends
\* with the cycle flag set, so that a run ending without the flag has left
\* distance[source] at 0, under both modes.
C30_SourceMovedMeansCycle ==
    PassesOver =>
        /\ (\E k \in 1..Len(algorithmSteps) :
               /\ IsImprovement(algorithmSteps[k])
               /\ algorithmSteps[k].updatedNode = startNode)
              => hasNegativeCycle
        /\ ~hasNegativeCycle => nodeDistances[startNode] = Fin(0)

\* A finished Minimize run whose flag is set and whose source was improved
\* below 0.
C30_Witness ==
    /\ pc = "done"
    /\ optimizationMode = "min"
    /\ hasNegativeCycle
    /\ nodeDistances[startNode] # Fin(0)
    /\ \E k \in 1..Len(algorithmSteps) :
          /\ IsImprovement(algorithmSteps[k])
          /\ algorithmSteps[k].updatedNode = startNode

\* ------------------------------ the older copy of runBellmanFord (1681 ff)
\* Variant: the older copy also takes an equal distance for an improvement.
OldImproves_NonStrict(fromDistance, toDistance, w) ==
    fromDistance # PosInf /\ ~Lt(toDistance, Plus(fromDistance, w))

\* The test of the older copy, used by its relaxation and its detection.
OldImproves(fromDistance, toDistance, w) ==
    fromDistance # PosInf /\ Lt(Plus(fromDistance, w), toDistance)

OldStartTables(ns, s) ==
    [d |-> [v \in Range(ns) |-> IF v = s THEN Fin(0) ELSE PosInf],
     p |-> [v \in Range(ns) |-> NULL],
     s |-> <<>>,
     u |-> FALSE]

\* The callback of edges.forEach of its relaxation loop, on one edge.
OldRelaxEdge(t, edge, round) ==
    LET fromDistance == Lookup(t.d, edge.from)
        toDistance == Lookup(t.d, edge.to)
        newDistance == Plus(fromDistance, edge.weight)
    IN  IF OldImproves(fromDistance, toDistance, edge.weight)
        THEN [d |-> [t.d EXCEPT ![edge.to] = newDistance],
              p |-> [t.p EXCEPT ![edge.to] = edge.from],
              s |-> Append(t.s,
                     [iteration |-> round,
                      updatedNode |-> edge.to,
                      distance |-> newDistance,
                      previous |-> edge.from,
                      description |-> "Relaxation"]),
              u |-> TRUE]
        ELSE t

RECURSIVE OldPass(_, _, _, _)
OldPass(es, k, t, round) ==
    IF k > Len(es) THEN t
    ELSE OldPass(es, k + 1, OldRelaxEdge(t, es[k], round), round)

RECURSIVE OldRounds(_, _, _, _)
OldRounds(n, es, t, round) ==
    IF ~(round < n - 1) THEN t
    ELSE LET after == OldPass(es, 1, [t EXCEPT !.u = FALSE], round + 1)
         IN  IF ~after.u THEN after ELSE OldRounds(n, es, after, round + 1)

\* Its detection pass, from edge k on.
RECURSIVE OldDetect(_, _, _, _, _)
OldDetect(n, es, k, d, acc) ==
    IF k > Len(es) THEN acc
    ELSE LET edge == es[k]
         IN  OldDetect(n, es, k + 1, d,
                IF OldImproves(Lookup(d, edge.from), Lookup(d, edge.to),
                               edge.weight)
                THEN [c |-> TRUE,
                      s |-> Append(acc.s,
                             [iteration |-> n,
                              updatedNode |-> edge.to,
                              distance |-> NegInf,
                              previous |-> NULL,
                              description |-> "Cycle negatif detecte!"])]
                ELSE acc)

\* while (current !== null) { path.unshift(current); current =
\* nodePrevious[current] }; a walk longer than the stack bound stands for
\* a loop that never ends.
RECURSIVE OldWalk(_, _, _)
OldWalk(p, current, path) ==
    IF current = NULL THEN [path |-> path, endless |-> FALSE]
    ELSE IF Len(path) >= StackLimit THEN [path |-> <<>>, endless |-> TRUE]
    ELSE OldWalk(p, IF current \in DOMAIN p THEN p[current] ELSE NULL,
                 <<current>> \o path)

\* The older copy on nodes ns, edges es, source s and target t.
OldRun(ns, es, s, t) ==
    LET tables == OldRounds(Len(ns), es, OldStartTables(ns, s), 0)
        detection == OldDetect(Len(ns), es, 1, tables.d,
                               [c |-> FALSE, s |-> tables.s])
        walk == IF detection.c
                THEN [path |-> <<>>, endless |-> FALSE]
                ELSE OldWalk(tables.p, t, <<>>)
        found == ~detection.c /\ walk.path # <<>> /\ walk.path[1] = s
    IN  [distances |-> tables.d,
         previous |-> tables.p,
         steps |-> detection.s,
         negativeCycle |-> detection.c,
         endless |-> walk.endless,
         optimalPath |-> IF found THEN walk.path ELSE <<>>,
         optimalDistance |-> IF found THEN Lookup(tables.d, t) ELSE NoDistance]

Older == OldRun(nodes, edges, startNode, endNode)

\* The improvement steps of a trace, in order.
Improvements(ss) == SelectSeq(ss, IsImprovement)

\* C28: under Minimize the older single-predecessor copy computes the
\* distances, the cycle flag and the improvement steps of the current
\* copy; when the current copy has returned from its enumeration, the path
\* of the older copy is the first of allOptimalPaths with the same optimal
\* distance, and it is empty exactly when allOptimalPaths is empty.
C28_OlderCopyAgrees ==
    (RunOver /\ optimizationMode = "min") =>
        /\ Older.distances = nodeDistances
        /\ Older.negativeCycle = hasNegativeCycle
        /\ Improvements(Older.steps) = Improvements(algorithmSteps)
        /\ pc = "done" =>
              /\ ~Older.endless
              /\ Older.optimalPath = optimalPath
              /\ (Older.optimalPath = <<>>) = (allOptimalPaths = <<>>)
              /\ allOptimalPaths # <<>> =>
                    /\ Older.optimalPath = allOptimalPaths[1]
                    /\ Older.optimalDistance = optimalDistance

\* A finished Minimize run with two optimal paths over three nodes, one of
\* them by a tie the older copy does not record.
C28_Witness ==
    /\ pc = "done"
    /\ optimizationMode = "min"
    /\ Len(allOptimalPaths) = 2
    /\ Len(allOptimalPaths[1]) = 3
    /\ \E k \in 1..Len(algorithmSteps) : IsTie(algorithmSteps[k])

\* C26: whatever the editor has been made to do, the designated source and
\* the designated target, when set, are ids of nodes of the graph, and the
\* run button is enabled only with both of them among the nodes.
C26_EndpointsExist ==
    /\ startNode # NULL => startNode \in Range(nodes)
    /\ endNode # NULL => endNode \in Range(nodes)
    /\ CanRunAlgorithm(startNode, endNode, nodes) =>
          /\ startNode \in Range(nodes)
          /\ endNode \in Range(nodes)

\* C27: the step that starts a replay is the last step of a run of the
\* engine on the graph as it stands: it publishes the trace and the flag
\* that run has just computed, with currentStep at 0, whatever step an
\* earlier replay was paused at; the step that pauses a replay changes
\* isRunning and nothing else.
C27_RunRestartsReplay ==
    [][/\ (~isRunning /\ isRunning') =>
             /\ pc \in {"detect", "dfs"}
             /\ pc' = "done"
             /\ currentStep' = 0
             /\ algorithmSteps' = steps
             /\ hasNegativeCycle' = hasCycle
             /\ UNCHANGED graphVars
       /\ (isRunning /\ ~isRunning' /\ ~algorithmCompleted') =>
             UNCHANGED <<graphVars, pc, loopVars, tableVars, dfsVars,
                         resultVars, displayVars, editorVars>>]_vars

\* A replay that has just been started again after an earlier replay of
\* the same trace was paused behind its second step.
C27_Witness ==
    /\ pc = "done"
    /\ isRunning
    /\ currentStep = 0
    /\ Len(algorithmSteps) >= 3
    /\ \E k \in 1..Len(edges) :
          /\ edgeActive[k]
          /\ edges[k].from = algorithmSteps[2].previous
          /\ edges[k].to = algorithmSteps[2].updatedNode
    /\ ~edgeActive[1]

\* The timer of the replay is a timeout the effect sets again after every
\* tick, and the effect runs after every render: both eventually happen.
SpecReplayFair ==
    /\ InitReplay
    /\ [][NextReplay]_vars
    /\ WF_vars(AnimationTick)
    /\ WF_vars(AnimationEnd)

ReplayCompleted ==
    /\ algorithmCompleted
    /\ ~isRunning
    /\ currentStep = Len(algorithmSteps)

ReplayPaused == ~isRunning /\ ~algorithmCompleted

\* C24: a replay that has been started leads, unless the user pauses it, to
\* algorithmCompleted with isRunning false and currentStep at the length
\* of the trace, whatever that length; and algorithmCompleted never holds
\* together with isRunning.
C24_ReplayCompletes ==
    /\ isRunning ~> (ReplayCompleted \/ ReplayPaused)
    /\ [](algorithmCompleted => ~isRunning)

\* A replay of an empty trace has completed.
C24_Witness ==
    /\ ReplayCompleted
    /\ algorithmSteps = <<>>
    /\ edges # <<>>

\* ------------------------------------------------------ a whole session
\* A drawn graph with its source designated, then the engine, the replay,
\* and the edits and the reset that stay available before, during and after
\* a replay.  The graphs have at most EditorNodes nodes and no self-loop, so
\* every cycle passes through the source, where the enumeration stops: the
\* recursion never reaches StackLimit here.
InitSession ==
    /\ \E n \in 1..EditorNodes :
          /\ nodes = NodeList(n)
          /\ edges \in EdgeLists(n)
    /\ startNode = nodes[1]
    /\ endNode \in {nodes[Len(nodes)], NULL}
    /\ optimizationMode = "min"
    /\ nodeData = DesignatedData(nodes, startNode)
    /\ edgeActive = [k \in 1..Len(edges) |-> FALSE]
    /\ EditorAtRest
    /\ NothingRun

NextSession ==
    \/ SetMode
    \/ SelectClick
    \/ DeleteEdgeClick
    \/ EditEdgeClick
    \/ TypeNewWeight
    \/ SaveEdgeEdit
    \/ CancelEdgeEdit
    \/ DeleteNode
    \/ Reset
    \/ RunRefused
    \/ RunStart
    \/ RelaxEdge
    \/ EndRound
    \/ DetectEdge
    \/ EndDetect
    \/ DfsRecord
    \/ DfsDescend
    \/ DfsReturn
    \/ RunCommit
    \/ AnimationTick
    \/ AnimationEnd
    \/ PauseReplay

SpecSession == InitSession /\ [][NextSession]_vars

\* What a tick does with one step of the trace: the node the step names
\* takes the step's distance and predecessor, and the edge the step came
\* along is the only one highlighted.
StepApplied(step) ==
    /\ nodeData' =
          [k \in 1..Len(nodes) |->
              IF nodes[k] = step.updatedNode
              THEN [nodeData[k] EXCEPT !.distance = step.distance,
                                       !.previous = step.previous]
              ELSE nodeData[k]]
    /\ edgeActive' =
          [k \in 1..Len(edges) |->
              /\ step.previous # NULL
              /\ edges[k].from = step.previous
              /\ edges[k].to = step.updatedNode]

\* C23: the replay applies the steps in the order of the trace, one per
\* tick.  currentStep always lies between 0 and the length of algorithmSteps.
\* currentStep moves forward only while isRunning holds, by exactly one,
\* with the trace untouched and the step at that position applied; any other
\* change of currentStep sets it back to 0 (a new run or a reset).  So while
\* the replay is paused, and after a reset, no step is applied.
C23_ReplayInOrder ==
    /\ currentStep \in 0..Len(algorithmSteps)
    /\ [][/\ currentStep' \in 0..Len(algorithmSteps')
          /\ currentStep' # currentStep =>
                \/ /\ isRunning
                   /\ currentStep < Len(algorithmSteps)
                   /\ currentStep' = currentStep + 1
                   /\ algorithmSteps' = algorithmSteps
                   /\ StepApplied(algorithmSteps[currentStep + 1])
                \/ currentStep' = 0
          /\ ~isRunning => currentStep' \in {0, currentStep}]_vars

\* A replay paused between two steps, the last applied step showing on its
\* node.
C23_Witness ==
    /\ ~isRunning
    /\ ~algorithmCompleted
    /\ currentStep >= 1
    /\ currentStep < Len(algorithmSteps)
    /\ \E k \in 1..Len(nodes) :
          /\ nodes[k] = algorithmSteps[currentStep].updatedNode
          /\ nodeData[k].distance = algorithmSteps[currentStep].distance
          /\ nodeData[k].distance # PosInf

\* C25: once the replay has completed, what is displayed as the result
\* matches the graph as it stands, edits made since included: every
\* consecutive pair of nodes of every displayed path is an edge of the
\* graph, and the displayed distance is the sum of the current weights of
\* those edges.
C25_ResultMatchesGraph ==
    algorithmCompleted =>
        \A k \in 1..Len(allOptimalPaths) :
            /\ FollowsEdges(allOptimalPaths[k])
            /\ optimalDistance = Fin(PathSum(allOptimalPaths[k]))
====
